---- MODULE Spec2Model ----
(***************************************************************************)
(* WebLLM chat UI: the model-loading fallback loop and the chat session    *)
(* controller of the two App components of the repository.                 *)
(*                                                                         *)
(*   variant = "app"    : src/src/App.jsx (load effect runs once, deps []) *)
(*   variant = "switch" : src/src/components/Message.jsx lines 28-368      *)
(*                        (model switching, deps [modelName, reloadToken,  *)
(*                        engine])                                         *)
(*                                                                         *)
(* Conventions.  Strings the code inspects are sequences of tokens:        *)
(* an error message is a sequence of words, the input text a sequence of   *)
(* one-character strings, so that trim() and the resource-exhaustion       *)
(* regular expression are computed and not assumed.  null is Null (the     *)
(* empty sequence) for texts and NoEngine for the engine handle.  List     *)
(* indices are 1-based: index 0 of the code is index 1 here.               *)
(* One step of the model is one task of the event loop together with the   *)
(* render and the effect flush React performs for it.                      *)
(***************************************************************************)
EXTENDS Integers, Sequences, FiniteSets, TLC

VARIABLES
    variant,          \* which App component is running
    controlsOnly,     \* TRUE: handlers are reached only through enabled controls
    mounted,          \* the component is mounted
    modelName,        \* useState modelName
    engine,           \* useState engine
    isDownloading,    \* useState isDownloading
    downloadProgress, \* useState downloadProgress
    progressMessage,  \* useState progressMessage (switch variant)
    error,            \* useState error
    reloadToken,      \* useState reloadToken (switch variant)
    triedModels,      \* triedModelsRef.current
    loads,            \* one record per run of the load effect (its closure)
    messages,         \* useState messages
    input,            \* useState input
    loading,          \* useState loading
    gens,             \* generateReply calls awaited by a handleSubmit
    nextId,           \* number of uid() calls made so far
    unhandled         \* a handleSubmit promise rejected

vars == <<variant, controlsOnly, mounted, modelName, engine, isDownloading,
          downloadProgress, progressMessage, error, reloadToken, triedModels,
          loads, messages, input, loading, gens, nextId, unhandled>>

loaderVars == <<modelName, engine, isDownloading, downloadProgress,
                progressMessage, error, reloadToken, triedModels, loads>>

chatVars == <<messages, input, loading, gens, nextId, unhandled>>

-----------------------------------------------------------------------------
(* Bounds of the model *)

MaxIds == 5          \* uid() calls, the initial message's included
MaxReloads == 1      \* handleModelChange calls that pass the no-op guard

-----------------------------------------------------------------------------
(* Values *)

Null == <<>>
NoEngine == "null"
Undefined == -1

FALLBACK_MODELS ==
    << "Llama-3.1-8B-Instruct-q4f32_1-MLC",
       "Llama-3.1-8B-Instruct-q4f16_1-MLC",
       "Llama-3.2-3B-Instruct-q4f16_1-MLC",
       "Llama-3.2-1B-Instruct-q4f16_1-MLC" >>

AppFallbackModels ==
    << "Llama-3.2-1B-Instruct-q4f16_1-MLC",
       "Llama-3.1-8B-Instruct-q4f32_1-MLC",
       "Llama-3.1-8B-Instruct-q4f16_1-MLC",
       "Llama-3.2-3B-Instruct-q4f16_1-MLC" >>

fallbackModels == IF variant = "app" THEN AppFallbackModels ELSE FALLBACK_MODELS

\* the size rank of a model: 4 for the largest (8B q4f32), 1 for the smallest
\* (1B), by the list of Message.jsx, which is "Ordered largest -> smallest"
ModelSize(name) ==
    Len(FALLBACK_MODELS) + 1
        - (CHOOSE i \in 1..Len(FALLBACK_MODELS) : FALLBACK_MODELS[i] = name)

InitialModelName ==
    IF variant = "app" THEN "Llama-3.1-8B-Instruct-q4f32_1-MLC"
                       ELSE "Llama-3.2-1B-Instruct-q4f16_1-MLC"

\* Messages CreateMLCEngine rejects with.
LoadErrors ==
    { <<"Device", "was", "lost">>,
      <<"GPU", "device", "lost">>,
      <<"INSUFFICIENT", "memory">>,
      <<"invalid", "model", "format">> }

\* Progress reports delivered to initProgressCallback (progress in thousandths).
ProgressObjs ==
    { [progress |-> Undefined, text |-> ""],
      [progress |-> 495,       text |-> "Fetching param cache"],
      [progress |-> 1000,      text |-> "Fetching param cache"] }

\* Outcomes of engine.chat.completions.create.
GenErrors == { <<"network", "error">> }
GenContents == { <<>>, <<"hello">> }

-----------------------------------------------------------------------------
(* Pure helpers *)

\* String.prototype.trim
RECURSIVE TrimLeft(_)
TrimLeft(s) == IF s # <<>> /\ Head(s) = " " THEN TrimLeft(Tail(s)) ELSE s

RECURSIVE TrimRight(_)
TrimRight(s) ==
    IF s # <<>> /\ s[Len(s)] = " " THEN TrimRight(SubSeq(s, 1, Len(s) - 1)) ELSE s

Trim(s) == TrimRight(TrimLeft(s))

\* Case folding of the /i flag, word by word.
ToLower(w) ==
    CASE w = "Device"       -> "device"
      [] w = "DEVICE"       -> "device"
      [] w = "INSUFFICIENT" -> "insufficient"
      [] w = "GPU"          -> "gpu"
      [] OTHER              -> w

Lowered(msg) == [i \in 1..Len(msg) |-> ToLower(msg[i])]

Contains(msg, pat) ==
    \E i \in 1..(Len(msg) - Len(pat) + 1) : SubSeq(msg, i, i + Len(pat) - 1) = pat

IsResourceExhaustionAlways(msg) == TRUE

\* /device lost|insufficient memory|Device was lost/i.test(message)
IsResourceExhaustion(msg) ==
    \/ Contains(Lowered(msg), <<"device", "lost">>)
    \/ Contains(Lowered(msg), <<"insufficient", "memory">>)
    \/ Contains(Lowered(msg), <<"device", "was", "lost">>)

\* Math.round((progressObj.progress ?? 0) * 100)
Percent(p) == LET f == IF p = Undefined THEN 0 ELSE p IN (f + 5) \div 10

\* fallbackModels.indexOf(name), 0 when absent
IndexOf(name) ==
    IF \E i \in 1..Len(fallbackModels) : fallbackModels[i] = name
    THEN CHOOSE i \in 1..Len(fallbackModels) :
            /\ fallbackModels[i] = name
            /\ \A j \in 1..(i - 1) : fallbackModels[j] # name
    ELSE 0

\* startIndex of the effect; loadModel's default nameIdx
StartIndex(name) ==
    IF variant = "app" THEN 1
    ELSE IF IndexOf(name) # 0 THEN IndexOf(name) ELSE 1

-----------------------------------------------------------------------------
(* Loader: the load effect, loadModel and the engine's callbacks.          *)
(* The operators below take and return the loader state as a record, so    *)
(* that one handler's calls compose as they do in the code.                *)

LoaderState ==
    [ modelName |-> modelName, engine |-> engine, isDownloading |-> isDownloading,
      downloadProgress |-> downloadProgress, progressMessage |-> progressMessage,
      error |-> error, reloadToken |-> reloadToken, triedModels |-> triedModels,
      loads |-> loads ]

Commit(s) ==
    /\ modelName' = s.modelName
    /\ engine' = s.engine
    /\ isDownloading' = s.isDownloading
    /\ downloadProgress' = s.downloadProgress
    /\ progressMessage' = s.progressMessage
    /\ error' = s.error
    /\ reloadToken' = s.reloadToken
    /\ triedModels' = s.triedModels
    /\ loads' = s.loads

\* The closure of one run of the load effect: its cancelled flag, its
\* startIndex, and where its loadModel chain stands (nameIdx, status).
\* attempts lists the indices this closure has passed to CreateMLCEngine.
NewLoad(start) ==
    [ cancelled |-> FALSE, startIndex |-> start, nameIdx |-> 0,
      status |-> "idle", attempts |-> <<>> ]

Pending(c) == c \in DOMAIN loads /\ loads[c].status = "pending"

\* loadModel giving up one candidate early
loadModelSkipsLast(s, c, nameIdx) ==
    IF variant = "switch" /\ s.loads[c].cancelled THEN s
    ELSE IF nameIdx >= Len(fallbackModels)
    THEN [s EXCEPT !.loads[c].status = "exhausted"]
    ELSE [s EXCEPT
            !.modelName = IF variant = "app" THEN fallbackModels[nameIdx] ELSE @,
            !.isDownloading = TRUE,
            !.downloadProgress = 0,
            !.error = Null,
            !.triedModels = Append(@, fallbackModels[nameIdx]),
            !.loads[c].nameIdx = nameIdx,
            !.loads[c].status = "pending",
            !.loads[c].attempts = Append(@, nameIdx)]

\* loadModel without its setError(null)
loadModelKeepsError(s, c, nameIdx) ==
    IF variant = "switch" /\ s.loads[c].cancelled THEN s
    ELSE IF nameIdx > Len(fallbackModels)
    THEN [s EXCEPT !.loads[c].status = "exhausted"]
    ELSE [s EXCEPT
            !.modelName = IF variant = "app" THEN fallbackModels[nameIdx] ELSE @,
            !.isDownloading = TRUE,
            !.downloadProgress = 0,
            !.triedModels = Append(@, fallbackModels[nameIdx]),
            !.loads[c].nameIdx = nameIdx,
            !.loads[c].status = "pending",
            !.loads[c].attempts = Append(@, nameIdx)]

\* loadModel(nameIdx) up to its await of CreateMLCEngine
loadModel(s, c, nameIdx) ==
    IF variant = "switch" /\ s.loads[c].cancelled THEN s
    ELSE IF nameIdx > Len(fallbackModels)
    THEN [s EXCEPT !.loads[c].status = "exhausted"]
    ELSE [s EXCEPT
            !.modelName = IF variant = "app" THEN fallbackModels[nameIdx] ELSE @,
            !.isDownloading = TRUE,
            !.downloadProgress = 0,
            !.error = Null,
            !.triedModels = Append(@, fallbackModels[nameIdx]),
            !.loads[c].nameIdx = nameIdx,
            !.loads[c].status = "pending",
            !.loads[c].attempts = Append(@, nameIdx)]

CleanupNothing(s) == s

\* the effect's cleanup: cancelled = true in the closure of the previous run
Cleanup(s) ==
    IF s.loads = <<>> THEN s
    ELSE [s EXCEPT !.loads[Len(s.loads)].cancelled = TRUE]

\* the effect without its if (!engine) guard
RunEffectAlwaysLoads(s) ==
    LET s1 == Cleanup(s)
        c  == Len(s1.loads) + 1
        s2 == [s1 EXCEPT !.loads = Append(@, NewLoad(StartIndex(s1.modelName)))]
    IN  loadModel(s2, c, s2.loads[c].startIndex)

\* one run of the load effect, after the cleanup of the previous run
RunEffect(s) ==
    LET s1 == Cleanup(s)
        c  == Len(s1.loads) + 1
        s2 == [s1 EXCEPT !.loads = Append(@, NewLoad(StartIndex(s1.modelName)))]
    IN  IF variant = "switch" /\ s2.engine # NoEngine
        THEN s2
        ELSE loadModel(s2, c, s2.loads[c].startIndex)

\* initProgressCallback without its setIsDownloading(percent < 100)
initProgressCallbackKeepsFlag(s, c, progressObj) ==
    IF s.loads[c].cancelled THEN s
    ELSE LET percent == Percent(progressObj.progress) IN
         [s EXCEPT
            !.downloadProgress = percent,
            !.progressMessage =
                IF variant = "switch" /\ progressObj.text # ""
                THEN progressObj.text ELSE @]

\* initProgressCallback(progressObj) of closure c
initProgressCallback(s, c, progressObj) ==
    IF s.loads[c].cancelled THEN s
    ELSE LET percent == Percent(progressObj.progress) IN
         [s EXCEPT
            !.downloadProgress = percent,
            !.isDownloading = (percent < 100),
            !.progressMessage =
                IF variant = "switch" /\ progressObj.text # ""
                THEN progressObj.text ELSE @]

\* the continuation of loadModel after CreateMLCEngine resolved
onCreated(s, c) ==
    IF s.loads[c].cancelled
    THEN [s EXCEPT !.loads[c].status = "discarded"]
    ELSE LET s1 == [s EXCEPT
                      !.engine = fallbackModels[s.loads[c].nameIdx],
                      !.isDownloading = FALSE,
                      !.downloadProgress = 100,
                      !.loads[c].status = "succeeded"]
         IN  IF variant = "switch" THEN RunEffect(s1) ELSE s1

\* the catch block without its if (cancelled) return
onCreateFailedUnchecked(s, c, message) ==
    LET s1 == [s EXCEPT !.error = message] IN
    IF IsResourceExhaustion(message)
    THEN loadModel(s1, c, s.loads[c].nameIdx + 1)
    ELSE [s1 EXCEPT !.isDownloading = FALSE, !.loads[c].status = "failed"]

\* the catch block falling back to the candidate that just failed
onCreateFailedRetriesSame(s, c, message) ==
    IF s.loads[c].cancelled
    THEN [s EXCEPT !.loads[c].status = "discarded"]
    ELSE LET s1 == [s EXCEPT !.error = message] IN
         IF IsResourceExhaustion(message)
         THEN loadModel(s1, c, s.loads[c].nameIdx)
         ELSE [s1 EXCEPT !.isDownloading = FALSE, !.loads[c].status = "failed"]

\* the catch block of loadModel after CreateMLCEngine rejected with message
onCreateFailed(s, c, message) ==
    IF s.loads[c].cancelled
    THEN [s EXCEPT !.loads[c].status = "discarded"]
    ELSE LET s1 == [s EXCEPT !.error = message] IN
         IF IsResourceExhaustion(message)
         THEN loadModel(s1, c, s.loads[c].nameIdx + 1)
         ELSE [s1 EXCEPT !.isDownloading = FALSE, !.loads[c].status = "failed"]

-----------------------------------------------------------------------------
(* Chat session: messages, generateReply, handleSubmit, clearChat.         *)

Msg(id, role, content, pending) ==
    [id |-> id, role |-> role, content |-> content, pending |-> pending]

\* uid(): Math.random() taken as collision-free; the k-th call of a step
\* returns a value no earlier call returned.
uid(k) == nextId + k

\* the input texts a user types: empty, whitespace only, plain, padded
Inputs == { <<>>, <<" ", " ">>, <<"h">>, <<" ", "h", " ">> }

\* what engine.chat.completions.create does with a request
GenOutcomes ==
    { [ok |-> TRUE, content |-> c, message |-> <<>>] : c \in GenContents }
    \cup { [ok |-> FALSE, content |-> <<>>, message |-> m] : m \in GenErrors }

generateReplyNoCatch(eng, outcome) ==
    IF eng = NoEngine
    THEN [reply |-> <<"Engine not initialized">>, caught |-> FALSE, threw |-> FALSE]
    ELSE IF outcome.ok
    THEN [reply |-> IF outcome.content # <<>> THEN outcome.content
                    ELSE <<"No response">>,
          caught |-> FALSE, threw |-> FALSE]
    ELSE [reply |-> <<>>, caught |-> FALSE, threw |-> TRUE]

\* generateReply reading the content outside its try: an empty result
\* rejects the call
generateReplyEmptyThrows(eng, outcome) ==
    IF eng = NoEngine
    THEN [reply |-> <<"Engine not initialized">>, caught |-> FALSE, threw |-> FALSE]
    ELSE IF outcome.ok
    THEN IF outcome.content # <<>>
         THEN [reply |-> outcome.content, caught |-> FALSE, threw |-> FALSE]
         ELSE [reply |-> <<>>, caught |-> FALSE, threw |-> TRUE]
    ELSE [reply |-> <<"Generation error:">> \o outcome.message,
          caught |-> TRUE, threw |-> FALSE]

\* generateReply without its if (!engine) return: the call on null throws
\* inside the try
generateReplyNoEngineCheck(eng, outcome) ==
    IF eng = NoEngine
    THEN [reply |-> <<"Generation error:", "engine", "is", "null">>,
          caught |-> TRUE, threw |-> FALSE]
    ELSE IF outcome.ok
    THEN [reply |-> IF outcome.content # <<>> THEN outcome.content
                    ELSE <<"No response">>,
          caught |-> FALSE, threw |-> FALSE]
    ELSE [reply |-> <<"Generation error:">> \o outcome.message,
          caught |-> TRUE, threw |-> FALSE]

\* generateReply(text) with the engine of the render that submitted:
\* reply is the returned text, caught says that the catch block ran
\* (setError(msg)), threw that the call rejected.
generateReply(eng, outcome) ==
    IF eng = NoEngine
    THEN [reply |-> <<"Engine not initialized">>, caught |-> FALSE, threw |-> FALSE]
    ELSE IF outcome.ok
    THEN [reply |-> IF outcome.content # <<>> THEN outcome.content
                    ELSE <<"No response">>,
          caught |-> FALSE, threw |-> FALSE]
    ELSE [reply |-> <<"Generation error:">> \o outcome.message,
          caught |-> TRUE, threw |-> FALSE]

\* the map matching on the role instead of the id
ResolvePlaceholderByRole(m, placeholderId, reply) ==
    [i \in 1..Len(m) |->
        IF m[i].role = "system"
        THEN [m[i] EXCEPT !.content = reply, !.pending = FALSE]
        ELSE m[i]]

\* m.map((msg) => msg.id === placeholderId ? {...msg, content: reply, pending: false} : msg)
ResolvePlaceholder(m, placeholderId, reply) ==
    [i \in 1..Len(m) |->
        IF m[i].id = placeholderId
        THEN [m[i] EXCEPT !.content = reply, !.pending = FALSE]
        ELSE m[i]]

SubmitGuardNoLoading(value, isLoading) == value = <<>>

SubmitGuardNoEmpty(value, isLoading) == isLoading

\* if (!value || loading) return;
SubmitGuard(value, isLoading) == value = <<>> \/ isLoading

ClearGuardNever(isLoading) == FALSE

\* if (loading) return; of clearChat
ClearGuard(isLoading) == isLoading

-----------------------------------------------------------------------------
(* What is rendered *)

\* the loading (progress/error) screen or the chat screen
Screen ==
    IF variant = "app"
    THEN IF \/ (isDownloading /\ engine = NoEngine)
            \/ (engine = NoEngine /\ error # Null)
         THEN "loading" ELSE "chat"
    ELSE IF engine = NoEngine THEN "loading" ELSE "chat"

\* disabled={...} of the submit button, the Clear button and the model select
SubmitEnabled ==
    ~(Trim(input) = <<>> \/ loading \/ (variant = "switch" /\ engine = NoEngine))

ClearEnabled ==
    ~(loading \/ (variant = "switch" /\ engine = NoEngine))

\* the select of the chat screen without its disabled={loading}
SelectEnabledWhileLoading ==
    IF Screen = "loading" THEN ~isDownloading ELSE TRUE

SelectEnabled ==
    IF Screen = "loading" THEN ~isDownloading ELSE ~loading

\* the model select exists on both screens of the switch variant only
SelectRendered == variant = "switch"

-----------------------------------------------------------------------------
(* Initial state: the values of the first render, before any effect ran *)

InitWith(ui) ==
    /\ variant \in {"app", "switch"}
    /\ controlsOnly = ui
    /\ mounted = TRUE
    /\ modelName = InitialModelName
    /\ engine = NoEngine
    /\ isDownloading = FALSE
    /\ downloadProgress = 0
    /\ progressMessage = ""
    /\ error = Null
    /\ reloadToken = 0
    /\ triedModels = <<>>
    /\ loads = <<>>
    /\ messages = << Msg(1, "system", <<"Hi! How can I help you today?">>, FALSE) >>
    /\ input = <<>>
    /\ loading = FALSE
    /\ gens = {}
    /\ nextId = 1
    /\ unhandled = FALSE

\* handlers are reached through controls that are rendered and enabled
Init == InitWith(TRUE)

\* handlers are called on any rendered element, whatever its disabled attribute
InitDirect == InitWith(FALSE)

-----------------------------------------------------------------------------
(* Loader actions *)

\* the first run of the load effect, after the first render
MountEffect ==
    /\ mounted
    /\ loads = <<>>
    /\ Commit(RunEffect(LoaderState))
    /\ UNCHANGED <<variant, controlsOnly, mounted, chatVars>>

\* the engine reports progress of the attempt of closure c
ProgressCallback(c, progressObj) ==
    /\ Pending(c)
    /\ Commit(initProgressCallback(LoaderState, c, progressObj))
    /\ UNCHANGED <<variant, controlsOnly, mounted, chatVars>>

\* CreateMLCEngine of closure c resolves
CreateResolves(c) ==
    /\ Pending(c)
    /\ Commit(onCreated(LoaderState, c))
    /\ UNCHANGED <<variant, controlsOnly, mounted, chatVars>>

\* CreateMLCEngine of closure c rejects with message
CreateRejects(c, message) ==
    /\ Pending(c)
    /\ Commit(onCreateFailed(LoaderState, c, message))
    /\ UNCHANGED <<variant, controlsOnly, mounted, chatVars>>

\* handleModelChange(e) with e.target.value = newModel
HandleModelChange(newModel) ==
    /\ mounted
    /\ loads # <<>>
    /\ SelectRendered
    /\ controlsOnly =>
          /\ SelectEnabled
          /\ newModel # modelName
          /\ IndexOf(newModel) # 0
    /\ IF newModel = modelName /\ engine # NoEngine
       THEN UNCHANGED vars
       ELSE /\ reloadToken < MaxReloads
            /\ nextId < MaxIds
            /\ Commit(RunEffect([LoaderState EXCEPT
                                    !.modelName = newModel,
                                    !.engine = NoEngine,
                                    !.reloadToken = @ + 1]))
            /\ messages' = << Msg(uid(1), "system",
                                  <<"Switched to", newModel, ". Initializing...">>,
                                  FALSE) >>
            /\ nextId' = nextId + 1
            /\ UNCHANGED <<variant, controlsOnly, mounted, input, loading, gens,
                           unhandled>>

\* the component unmounts: the effect's cleanup runs
Unmount ==
    /\ mounted
    /\ mounted' = FALSE
    /\ Commit(Cleanup(LoaderState))
    /\ UNCHANGED <<variant, controlsOnly, chatVars>>

-----------------------------------------------------------------------------
(* Chat actions *)

\* onChange of the input box: setInput(e.target.value)
SetInput(text) ==
    /\ mounted
    /\ loads # <<>>
    /\ Screen = "chat"
    /\ input' = text
    /\ UNCHANGED <<variant, controlsOnly, mounted, loaderVars, messages, loading,
                   gens, nextId, unhandled>>

\* handleSubmit(e), up to and including its await when generateReply
\* returns without a request (no engine)
HandleSubmit ==
    /\ mounted
    /\ loads # <<>>
    /\ Screen = "chat"
    /\ controlsOnly => SubmitEnabled
    /\ LET value == Trim(input) IN
       IF SubmitGuard(value, loading)
       THEN UNCHANGED vars
       ELSE LET userMsg == Msg(uid(1), "user", value, FALSE)
                placeholderId == uid(2)
                placeholder == Msg(placeholderId, "system", <<"Thinking...">>, TRUE)
                appended == messages \o <<userMsg, placeholder>>
            IN  /\ nextId + 2 <= MaxIds
                /\ nextId' = nextId + 2
                /\ input' = <<>>
                /\ IF engine = NoEngine
                   THEN LET r == generateReply(engine, CHOOSE o \in GenOutcomes : TRUE)
                        IN  /\ messages' =
                                 ResolvePlaceholder(appended, placeholderId, r.reply)
                            /\ loading' = FALSE
                            /\ gens' = gens
                   ELSE /\ messages' = appended
                        /\ loading' = TRUE
                        /\ gens' = gens \cup
                              {[placeholderId |-> placeholderId, text |-> value,
                                engine |-> engine]}
                /\ UNCHANGED <<variant, controlsOnly, mounted, loaderVars, unhandled>>

\* the request g settles with outcome; handleSubmit continues after its await
GenerationSettles(g, outcome) ==
    /\ g \in gens
    /\ gens' = gens \ {g}
    /\ LET r == generateReply(g.engine, outcome) IN
       IF ~mounted
       THEN UNCHANGED <<messages, loading, error, unhandled>>
       ELSE IF r.threw
       THEN /\ unhandled' = TRUE
            /\ UNCHANGED <<messages, loading, error>>
       ELSE /\ messages' = ResolvePlaceholder(messages, g.placeholderId, r.reply)
            /\ loading' = FALSE
            /\ error' = IF r.caught THEN r.reply ELSE error
            /\ UNCHANGED unhandled
    /\ UNCHANGED <<variant, controlsOnly, mounted, modelName, engine, isDownloading,
                   downloadProgress, progressMessage, reloadToken, triedModels,
                   loads, input, nextId>>

\* clearChat()
ClearChat ==
    /\ mounted
    /\ loads # <<>>
    /\ Screen = "chat"
    /\ controlsOnly => ClearEnabled
    /\ IF ClearGuard(loading)
       THEN UNCHANGED vars
       ELSE /\ nextId < MaxIds
            /\ messages' = << Msg(uid(1), "system",
                                  <<"Chat cleared. Ask something else!">>, FALSE) >>
            /\ nextId' = nextId + 1
            /\ UNCHANGED <<variant, controlsOnly, mounted, loaderVars, input, loading,
                           gens, unhandled>>

-----------------------------------------------------------------------------

\* values handleModelChange is called with: the largest model, a middle one,
\* the smallest (the initial selection) and a value that is not in the list
SelectableModels ==
    { fallbackModels[1], fallbackModels[Len(fallbackModels) - 1],
      fallbackModels[Len(fallbackModels)], "unlisted-model" }

Next ==
    \/ MountEffect
    \/ \E c \in DOMAIN loads, p \in ProgressObjs : ProgressCallback(c, p)
    \/ \E c \in DOMAIN loads : CreateResolves(c)
    \/ \E c \in DOMAIN loads, m \in LoadErrors : CreateRejects(c, m)
    \/ \E n \in SelectableModels : HandleModelChange(n)
    \/ Unmount
    \/ \E text \in Inputs : SetInput(text)
    \/ HandleSubmit
    \/ \E g \in gens, o \in GenOutcomes : GenerationSettles(g, o)
    \/ ClearChat

\* the program as a user drives it
Spec == Init /\ [][Next]_vars

\* the handlers called directly, to exercise the guards the controls duplicate
SpecDirect == InitDirect /\ [][Next]_vars

\* the most load-effect runs a behaviour holds: the mount and every model
\* switch run the effect once, and each may run it once more when its engine
\* is set
MaxLoads == 2 * (MaxReloads + 1)

\* the promise of CreateMLCEngine awaited by closure c settles
Settle(c) == CreateResolves(c) \/ \E m \in LoadErrors : CreateRejects(c, m)

\* every promise the program awaits settles: each CreateMLCEngine call and
\* each engine.chat.completions.create call resolves or rejects
Fairness ==
    /\ \A c \in 1..MaxLoads : WF_vars(Settle(c))
    /\ WF_vars(\E g \in gens, o \in GenOutcomes : GenerationSettles(g, o))

\* the program as a user drives it, with an engine that answers every call
SpecFair == Init /\ [][Next]_vars /\ Fairness

-----------------------------------------------------------------------------
(* Properties of the loader *)

N == Len(fallbackModels)

\* the indices a..b in increasing order
Range(a, b) == [i \in 1..(b - a + 1) |-> a + i - 1]

\* the models at the indices of a sequence of indices
ModelsAt(idxs) == [i \in 1..Len(idxs) |-> fallbackModels[idxs[i]]]

\* the last n entries of a sequence
LastN(seq, n) == SubSeq(seq, Len(seq) - n + 1, Len(seq))

\* the index a load is specified to start at: that of the selected model when
\* the component takes one (switch variant) and the list holds it, else the first
SpecifiedStart(name) ==
    IF variant = "switch" /\ \E i \in 1..N : fallbackModels[i] = name
    THEN CHOOSE i \in 1..N : fallbackModels[i] = name
    ELSE 1

Live(c) == c \in DOMAIN loads /\ ~loads[c].cancelled

\* this step starts an initialization attempt
AttemptStarted ==
    \/ triedModels' # triedModels
    \/ \E c \in DOMAIN loads' :
          loads'[c].attempts # (IF c \in DOMAIN loads THEN loads[c].attempts ELSE <<>>)

\* C1: when the attempt of candidate k of a live load succeeds (the load
\* started at the index s of the selected model, or at the first index when
\* the list does not hold it, and every earlier attempt of the load failed
\* with resource exhaustion), the engine of candidate k is held, error is
\* null, progress is 100, isDownloading is false, and the load attempted
\* exactly s, s+1, ..., k, once each, in list order.
C1_FallbackToSuccess ==
    [][\A c \in DOMAIN loads :
          (Live(c) /\ Pending(c) /\ loads'[c].status = "succeeded") =>
             LET k == loads[c].nameIdx
                 s == SpecifiedStart(IF variant = "switch" THEN modelName
                                     ELSE InitialModelName)
             IN  /\ s <= k
                 /\ engine' = fallbackModels[k]
                 /\ error' = Null
                 /\ downloadProgress' = 100
                 /\ isDownloading' = FALSE
                 /\ loads'[c].attempts = Range(s, k)
                 /\ triedModels' = triedModels
                 /\ LastN(triedModels, k - s + 1) = ModelsAt(Range(s, k))
      ]_vars

\* a load of the switch variant fell back twice and then succeeded
C1_Witness ==
    \E c \in DOMAIN loads :
        /\ variant = "switch"
        /\ loads[c].status = "succeeded"
        /\ loads[c].attempts = <<1, 2, 3>>
        /\ engine = fallbackModels[3]
        /\ error = Null
        /\ downloadProgress = 100
        /\ ~isDownloading

\* C2: when an attempt of a live load fails with a message that matches none
\* of the resource-exhaustion patterns, the load starts no further attempt
\* (then or ever), the engine stays null, error is that message and
\* isDownloading becomes false.
C2_TerminalFailure ==
    [][\A c \in DOMAIN loads :
          /\ (Live(c) /\ CreateRejects(c, <<"invalid", "model", "format">>)) =>
                /\ loads'[c].status = "failed"
                /\ loads'[c].attempts = loads[c].attempts
                /\ ~AttemptStarted
                /\ engine = NoEngine /\ engine' = NoEngine
                /\ error' = <<"invalid", "model", "format">>
                /\ isDownloading' = FALSE
          /\ loads[c].status = "failed" =>
                /\ loads'[c].status = "failed"
                /\ loads'[c].attempts = loads[c].attempts
      ]_vars

\* a load stopped at a candidate that is not the last of the list
C2_Witness ==
    \E c \in DOMAIN loads :
        /\ Live(c)
        /\ loads[c].status = "failed"
        /\ loads[c].nameIdx < N
        /\ engine = NoEngine
        /\ error = <<"invalid", "model", "format">>
        /\ ~isDownloading

\* C3 as stated: a load whose attempts all failed with resource exhaustion
\* has tried every candidate of the list, the tried-candidates list being the
\* full input list.
C3_TriedListIsFullList ==
    \A c \in DOMAIN loads :
        loads[c].status = "exhausted" =>
            /\ loads[c].attempts = Range(1, N)
            /\ triedModels = fallbackModels

\* C3 amended: when the last candidate of a live load that started at index s
\* fails with resource exhaustion, the load has tried the candidates s..N,
\* once each, in list order, and stops for good: no engine, the last error
\* retained, no further attempt; the candidates it pushed to triedModels are
\* the list from s on, which is the full list in App.jsx (s is the first index).
C3_Exhaustion ==
    [][\A c \in DOMAIN loads :
          /\ (Live(c) /\ Pending(c) /\ loads'[c].status = "exhausted") =>
                LET s == SpecifiedStart(IF variant = "switch" THEN modelName
                                        ELSE InitialModelName)
                IN  /\ loads'[c].attempts = Range(s, N)
                    /\ ~AttemptStarted
                    /\ LastN(triedModels', N - s + 1) = ModelsAt(Range(s, N))
                    /\ variant = "app" => triedModels' = fallbackModels
                    /\ engine' = NoEngine
                    /\ error' \in LoadErrors \ {<<"invalid", "model", "format">>}
                    /\ CreateRejects(c, error')
          /\ loads[c].status = "exhausted" =>
                /\ loads'[c].status = "exhausted"
                /\ loads'[c].attempts = loads[c].attempts
      ]_vars

\* a load of the switch variant that started at the third candidate ran out
C3_Witness ==
    \E c \in DOMAIN loads :
        /\ variant = "switch"
        /\ Live(c)
        /\ loads[c].status = "exhausted"
        /\ loads[c].attempts = <<3, 4>>
        /\ engine = NoEngine
        /\ error = <<"Device", "was", "lost">>

\* C4: once a load is cancelled while its attempt is pending, the progress
\* callbacks and the resolution of that attempt (success, failure, resource
\* exhaustion included) change none of engine, downloadProgress, error and
\* isDownloading, and start no fallback attempt.
C4_CancelledLoadIsInert ==
    [][\A c \in DOMAIN loads :
          (/\ loads[c].cancelled
           /\ Pending(c)
           /\ \/ \E p \in ProgressObjs : ProgressCallback(c, p)
              \/ CreateResolves(c)
              \/ \E m \in LoadErrors : CreateRejects(c, m))
          => /\ UNCHANGED <<engine, downloadProgress, error, isDownloading>>
             /\ ~AttemptStarted
             /\ loads'[c].status # "succeeded"
      ]_vars

\* the attempt of a load cancelled by a model switch has resolved while the
\* load that replaced it is still pending
C4_Witness ==
    \E c, d \in DOMAIN loads :
        /\ mounted
        /\ loads[c].cancelled
        /\ loads[c].status = "discarded"
        /\ Live(d)
        /\ Pending(d)
        /\ engine = NoEngine

\* C5: while an engine is held no initialization attempt is pending in a live
\* load, and none starts except by handleModelChange; the re-run of the effect
\* that the new engine causes starts none.
C5_NoLoadWhileEngineHeld ==
    /\ [](engine # NoEngine => \A c \in DOMAIN loads : ~(Live(c) /\ Pending(c)))
    /\ [][(engine # NoEngine /\ AttemptStarted)
            => \E n \in SelectableModels : HandleModelChange(n)]_vars

\* the first candidate tried succeeded and the effect ran again without loading
C5_Witness ==
    /\ variant = "switch"
    /\ engine # NoEngine
    /\ Len(triedModels) = 1
    /\ Len(loads) = 2
    /\ loads[1].status = "succeeded"
    /\ loads[2].status = "idle"

\* C6: at most one attempt of a load that is not cancelled is pending.
C6_OneLiveAttempt ==
    Cardinality({c \in DOMAIN loads : Live(c) /\ Pending(c)}) <= 1

\* two attempts are pending, one of them of a cancelled load
C6_Witness ==
    \E c, d \in DOMAIN loads :
        /\ loads[c].cancelled /\ Pending(c)
        /\ Live(d) /\ Pending(d)

-----------------------------------------------------------------------------
(* Properties of the chat session *)

Blank(text) == \A i \in 1..Len(text) : text[i] = " "

Ids(m) == [i \in 1..Len(m) |-> m[i].id]

PendingMessages == {i \in 1..Len(messages) : messages[i].pending}

\* C7: a submit of non-blank text with an engine held and no generation in
\* flight appends exactly the user message and then a pending placeholder;
\* when the request settles, the placeholder, still in its place with its
\* id, gets the reply and is no longer pending, and every other message and
\* the length of the transcript are unchanged.
C7_SubmitThenResolveInPlace ==
    [][/\ (HandleSubmit /\ engine # NoEngine /\ ~Blank(input) /\ ~loading) =>
            LET n == Len(messages) IN
            /\ Len(messages') = n + 2
            /\ SubSeq(messages', 1, n) = messages
            /\ messages'[n + 1].role = "user"
            /\ messages'[n + 1].content = Trim(input)
            /\ ~messages'[n + 1].pending
            /\ messages'[n + 2].role = "system"
            /\ messages'[n + 2].pending
            /\ messages'[n + 1].id # messages'[n + 2].id
            /\ \A i \in 1..n : messages[i].id \notin
                                  {messages'[n + 1].id, messages'[n + 2].id}
            /\ \E g \in gens' : g.placeholderId = messages'[n + 2].id
       /\ \A g \in gens, o \in GenOutcomes :
            (mounted /\ GenerationSettles(g, o)) =>
               /\ Len(messages') = Len(messages)
               /\ \E i \in 1..Len(messages) :
                     /\ messages[i].id = g.placeholderId
                     /\ messages[i].pending
                     /\ messages'[i].id = messages[i].id
                     /\ messages'[i].role = messages[i].role
                     /\ messages'[i].content # messages[i].content
                     /\ ~messages'[i].pending
                     /\ \A j \in 1..Len(messages) \ {i} : messages'[j] = messages[j]
      ]_vars

\* the placeholder of a submit got the engine's reply, in third place
C7_Witness ==
    /\ mounted
    /\ engine # NoEngine
    /\ Len(messages) = 3
    /\ messages[2].role = "user"
    /\ messages[3].role = "system"
    /\ messages[3].content = <<"hello">>
    /\ ~messages[3].pending
    /\ gens = {}

\* C8: a submit of empty or blank input, or one made while a generation is
\* in flight, leaves messages, input and loading as they are and sends no
\* request.
C8_RejectedSubmitChangesNothing ==
    [][(HandleSubmit /\ (Blank(input) \/ loading \/ gens # {}))
          => UNCHANGED <<messages, input, loading, gens, unhandled>>]_vars

\* the form is rendered with text typed while a generation is in flight
C8_Witness ==
    /\ mounted
    /\ Screen = "chat"
    /\ loading
    /\ gens # {}
    /\ input = <<" ", "h", " ">>
    /\ ENABLED HandleSubmit

\* C9: at most one generation is in flight and at most one placeholder is
\* pending, and a request that settles leaves the order of the transcript
\* as it is.
C9_OneGenerationInFlight ==
    /\ [](Cardinality(gens) <= 1 /\ Cardinality(PendingMessages) <= 1)
    /\ [][\A g \in gens, o \in GenOutcomes :
            GenerationSettles(g, o) => Ids(messages') = Ids(messages)]_vars

\* a second submit is in flight after the first one got its reply
C9_Witness ==
    /\ Cardinality(gens) = 1
    /\ loading
    /\ Len(messages) = 5
    /\ ~messages[3].pending
    /\ messages[5].pending

\* C10: when the request of a submit fails, handleSubmit does not reject, no
\* new request is sent, the placeholder reads "Generation error: " followed
\* by the message and is no longer pending, and loading is false again.
C10_GenerationFailure ==
    [][\A g \in gens, o \in GenOutcomes :
          (mounted /\ ~o.ok /\ GenerationSettles(g, o)) =>
             /\ unhandled' = FALSE
             /\ gens' = gens \ {g}
             /\ loading' = FALSE
             /\ \E i \in 1..Len(messages) :
                   /\ messages[i].id = g.placeholderId
                   /\ messages'[i].content = <<"Generation error:">> \o o.message
                   /\ ~messages'[i].pending
      ]_vars

\* a placeholder holds the error text of a failed request
C10_Witness ==
    /\ mounted
    /\ ~loading
    /\ ~unhandled
    /\ gens = {}
    /\ \E i \in 1..Len(messages) :
          /\ messages[i].content = <<"Generation error:", "network", "error">>
          /\ ~messages[i].pending

\* C11: clearChat while a generation is pending (loading is set, a request
\* is in flight or a placeholder is pending) leaves the transcript as it is;
\* in any other state it leaves a transcript of length 1: one system message
\* with a new id that is not pending.
C11_ClearNoOpOrSingleMessage ==
    [][ClearChat =>
          IF loading \/ gens # {} \/ PendingMessages # {}
          THEN messages' = messages
          ELSE /\ Len(messages') = 1
               /\ messages'[1].role = "system"
               /\ ~messages'[1].pending
               /\ messages'[1].content = <<"Chat cleared. Ask something else!">>
               /\ \A i \in 1..Len(messages) : messages[i].id # messages'[1].id
      ]_vars

\* a transcript that held a question and its reply was cleared
C11_Witness ==
    /\ mounted
    /\ ~loading
    /\ nextId >= 4
    /\ Len(messages) = 1
    /\ messages[1].content = <<"Chat cleared. Ask something else!">>
    /\ ~messages[1].pending

\* C12: a submit of non-blank text while no engine is held does not reject
\* and sends no request: the user message and the placeholder are appended,
\* the placeholder reads "Engine not initialized" and is not pending, and
\* loading is false when the submit is over.
C12_SubmitWithoutEngine ==
    [][(HandleSubmit /\ engine = NoEngine /\ ~Blank(input) /\ ~loading) =>
          LET n == Len(messages) IN
          /\ unhandled' = FALSE
          /\ gens' = gens
          /\ Len(messages') = n + 2
          /\ SubSeq(messages', 1, n) = messages
          /\ messages'[n + 1].role = "user"
          /\ messages'[n + 1].content = Trim(input)
          /\ messages'[n + 2].role = "system"
          /\ messages'[n + 2].content = <<"Engine not initialized">>
          /\ ~messages'[n + 2].pending
          /\ loading' = FALSE
          /\ error' = error
      ]_vars

\* the chat screen of App.jsx took a question before any engine was held
C12_Witness ==
    /\ mounted
    /\ engine = NoEngine
    /\ ~loading
    /\ gens = {}
    /\ ~unhandled
    /\ Len(messages) = 3
    /\ messages[2].role = "user"
    /\ messages[3].content = <<"Engine not initialized">>
    /\ ~messages[3].pending

\* a step of the chat session: typing, submit, a request settling, clear
ChatStep ==
    \/ \E text \in Inputs : SetInput(text)
    \/ HandleSubmit
    \/ \E g \in gens, o \in GenOutcomes : GenerationSettles(g, o)
    \/ ClearChat

\* C13: no step of the chat session (submit, a generation succeeding or
\* failing, clear) changes a field of the loader (engine, progress, error,
\* isDownloading, the tried candidates), and error is null in every state
\* where an engine is held.
C13_ChatLeavesLoaderState ==
    /\ [][ChatStep => UNCHANGED loaderVars]_vars
    /\ [](engine # NoEngine => error = Null)

\* some attempt of a load that was not cancelled awaits CreateMLCEngine
LiveAttemptPending == \E c \in DOMAIN loads : Live(c) /\ Pending(c)

\* C14: in the App with model switching, isDownloading (the flag that
\* disables the select of the loading screen) is true in every state where
\* an attempt of a load that was not cancelled is still pending, whatever
\* progress callbacks arrived.
C14_DownloadingWhilePending ==
    (variant = "switch" /\ LiveAttemptPending) => isDownloading

\* C14 as amended: in the App with model switching, while an attempt of a
\* load that was not cancelled is pending, no engine is held and
\* isDownloading is true exactly when the progress held is below 100.
C14_DownloadingUntilFullProgress ==
    (variant = "switch" /\ LiveAttemptPending) =>
        /\ engine = NoEngine
        /\ Screen = "loading"
        /\ isDownloading <=> (downloadProgress < 100)
        /\ SelectEnabled <=> (downloadProgress >= 100)

\* a callback reported the whole download before the engine was created
C14_Witness ==
    /\ variant = "switch"
    /\ mounted
    /\ LiveAttemptPending
    /\ downloadProgress = 100
    /\ ~isDownloading
    /\ SelectEnabled

\* the current load ran out of candidates
LiveLoadExhausted ==
    \E c \in DOMAIN loads : Live(c) /\ loads[c].status = "exhausted"

\* C15: once the current load of the App with model switching has run out
\* of candidates, the error panel is shown (no engine, the last error kept),
\* no load is indicated as in progress and the model select is enabled, so
\* that a selection can start a new load.
C15_RetryAfterExhaustion ==
    (variant = "switch" /\ mounted /\ LiveLoadExhausted) =>
        /\ engine = NoEngine
        /\ error # Null
        /\ Screen = "loading"
        /\ ~isDownloading
        /\ SelectEnabled

\* C16: the progress held stays in 0..100 and, within one attempt, never
\* decreases, also when a callback carries a smaller fraction than an
\* earlier one; it goes down only to 0, and only in a step that starts a new
\* attempt.
C16_ProgressNeverDecreases ==
    /\ [](downloadProgress \in 0..100)
    /\ [][downloadProgress' < downloadProgress =>
            (AttemptStarted /\ downloadProgress' = 0)]_vars

\* C17: in the App of App.jsx, every state where no engine is held (before
\* the first attempt starts, while an attempt is pending at any progress,
\* after a terminal failure) shows the progress/error panel and not the chat
\* screen with its form.
C17_PanelWheneverNoEngine ==
    (variant = "app" /\ mounted /\ engine = NoEngine) => Screen = "loading"

\* C18: the loader of App.jsx goes down its candidate list from the largest
\* model to the smallest: every fallback step (the attempt started after one
\* that failed with resource exhaustion) picks a candidate that is not
\* larger than the one that just failed.
C18_FallbackPicksSmaller ==
    [][\A c \in DOMAIN loads :
          (/\ variant = "app"
           /\ Pending(c)
           /\ loads'[c].status = "pending"
           /\ loads'[c].nameIdx # loads[c].nameIdx) =>
              ModelSize(fallbackModels[loads'[c].nameIdx])
                  <= ModelSize(fallbackModels[loads[c].nameIdx])]_vars

\* C19: in the App with model switching, whenever an engine is held,
\* modelName (the value the select shows) is the identifier of the candidate
\* that engine was created from, after any fallbacks and model switches.
C19_ModelNameIsEngineModel ==
    (variant = "switch" /\ engine # NoEngine) => modelName = engine

\* C20: with the model select and Clear used only through their controls,
\* loading is true exactly when the transcript holds exactly one pending
\* message, the transcript holds no pending message when loading is false,
\* and a pending placeholder stays in the transcript, pending, until the
\* step in which its request settles.
C20_LoadingIffOnePending ==
    /\ [](loading <=> Cardinality(PendingMessages) = 1)
    /\ [](~loading => PendingMessages = {})
    /\ [][\A i \in PendingMessages :
            \E j \in 1..Len(messages') :
                /\ messages'[j].id = messages[i].id
                /\ \/ messages'[j].pending
                   \/ \E g \in gens \ gens' : g.placeholderId = messages[i].id
       ]_vars

\* a request is in flight on the chat screen of the App with model
\* switching: its placeholder is the one pending message, and the select and
\* Clear are disabled
C20_Witness ==
    /\ variant = "switch"
    /\ mounted
    /\ Screen = "chat"
    /\ loading
    /\ Cardinality(gens) = 1
    /\ Cardinality(PendingMessages) = 1
    /\ ~SelectEnabled
    /\ ~ClearEnabled

-----------------------------------------------------------------------------
(* Termination *)

\* the load of closure c is over: it holds its engine, or it stopped with
\* the error kept and no engine
Terminal(c) ==
    \/ loads[c].status = "succeeded"
    \/ /\ loads[c].status \in {"failed", "exhausted"}
       /\ error # Null
       /\ engine = NoEngine

\* C21: when every CreateMLCEngine call settles, a load that is not
\* superseded (by a model switch or the unmount) reaches a terminal state:
\* its engine held, or no attempt pending with the error kept. A load that
\* starts at index s of N candidates makes at most N - s + 1 attempts
\* (indices from 1), at the indices s, s+1, ... in this order: no candidate
\* twice, never backwards, never past the end of the list.
C21_LoadTerminates ==
    /\ [](\A c \in DOMAIN loads :
            LET a == loads[c].attempts
                s == loads[c].startIndex
            IN  /\ Len(a) <= N - s + 1
                /\ a = Range(s, s + Len(a) - 1)
                /\ \A i \in 1..Len(a) : a[i] \in 1..N)
    /\ \A c \in 1..MaxLoads :
          (Live(c) /\ Pending(c)) ~> (~Live(c) \/ Terminal(c))

\* the load of App.jsx stopped for good at its second candidate
C21_Witness ==
    /\ variant = "app"
    /\ mounted
    /\ Live(1)
    /\ loads[1].status = "failed"
    /\ loads[1].attempts = <<1, 2>>
    /\ Terminal(1)

\* C22: when every generation request settles, a submit that was accepted
\* is followed, as long as the component is mounted, by a state where
\* loading is false and no placeholder is pending: a request is in flight
\* whenever loading is set, the step in which it settles (with a reply, with
\* empty content or with a failure) clears loading and the pending flag of
\* its placeholder, and a submit without an engine clears both in its own
\* step. The controls that loading disables are therefore enabled again.
C22_SubmitSettles ==
    /\ []((mounted /\ loading) => gens # {})
    /\ [][\A g \in gens, o \in GenOutcomes :
            (mounted /\ GenerationSettles(g, o)) =>
               /\ loading' = FALSE
               /\ \A i \in 1..Len(messages') :
                     messages'[i].id = g.placeholderId => ~messages'[i].pending
       ]_vars
    /\ [][(HandleSubmit /\ engine = NoEngine /\ messages' # messages) =>
            /\ loading' = FALSE
            /\ \A i \in 1..Len(messages') : ~messages'[i].pending
       ]_vars
    /\ (mounted /\ loading) ~> (~mounted \/ (~loading /\ PendingMessages = {}))

\* the engine answered a submit with empty content: the placeholder reads
\* "No response" and the form is ready again
C22_Witness ==
    /\ mounted
    /\ engine # NoEngine
    /\ ~loading
    /\ gens = {}
    /\ PendingMessages = {}
    /\ Len(messages) = 3
    /\ messages[3].content = <<"No response">>
    /\ ClearEnabled

====
